---- MODULE Spec2Model ----
(***************************************************************************)
(* A model of gridmaker.py: get_column_label, draw_grid and main.          *)
(*                                                                         *)
(* Strings of the labels are sequences of one-character strings.  The      *)
(* overlay image that draw_grid paints on is kept as the list of the draw  *)
(* calls made on it, in order; the value of one of its pixels is the fill  *)
(* of the last call that painted it (ImageDraw writes pixels, it does not  *)
(* blend), and (0,0,0,0) where no call painted.  Pixels are <<r,g,b,a>>.   *)
(***************************************************************************)
EXTENDS Integers, Sequences, FiniteSets, TLC

VARIABLES
    pc,          \* position in main / draw_grid
    argv,        \* the command line as parse_args read it (never changed)
    args,        \* the argparse namespace main works on (opacity, output are reassigned)
    image,       \* the opened input image: mode, size, whether its data decodes
    font_tried,  \* the ImageFont.truetype calls made so far, in order, with their outcome
    font,        \* the font draw_grid resolved
    num_lines,   \* <<num_horizontal, num_vertical>>
    i,           \* loop index of the row / column loop
    grid_overlay,\* the draw calls made on the overlay, in order
    log,         \* warnings and errors logged so far, in order
    error,       \* the exception main caught
    saved,       \* the path grid_image.save wrote
    ret,         \* main's return value
    index,       \* argument of a direct get_column_label call
    col_label    \* its result

vars == <<pc, argv, args, image, font_tried, font, num_lines, i, grid_overlay,
          log, error, saved, ret, index, col_label>>

None == "None"

----------------------------------------------------------------------------
(* Bounds of the model *)

MaxIndex == 710     \* largest column index handed to get_column_label directly
MaxDim == 24        \* largest image width / height

----------------------------------------------------------------------------
(* Python arithmetic *)

\* division that rounds toward zero instead of down
FloorDiv_Truncating(a, b) == IF b > 0 THEN a \div b ELSE -(a \div (-b))

\* a // b for b # 0: floor division, also for negative operands
FloorDiv(a, b) == IF b > 0 THEN a \div b ELSE (-a) \div (-b)

\* a % b for b > 0
PyMod(a, b) == a % b

Max(a, b) == IF a >= b THEN a ELSE b
Min(a, b) == IF a <= b THEN a ELSE b

\* chr(n) for 65 <= n <= 91: the ASCII characters from "A" to "["
ASCII == <<"A","B","C","D","E","F","G","H","I","J","K","L","M",
           "N","O","P","Q","R","S","T","U","V","W","X","Y","Z",
           "[">>

chr(n) == ASCII[n - 64]

\* str(n) for 0 <= n <= 99
Digits == <<"0","1","2","3","4","5","6","7","8","9">>

str(n) == IF n < 10 THEN <<Digits[n + 1]>>
          ELSE <<Digits[(n \div 10) + 1], Digits[(n % 10) + 1]>>

----------------------------------------------------------------------------
(* get_column_label *)

get_column_label(idx) ==
    IF idx < 26
    THEN <<chr(65 + idx)>>
    ELSE <<chr(65 + FloorDiv(idx, 26) - 1), chr(65 + PyMod(idx, 26))>>

----------------------------------------------------------------------------
(* Images *)

\* the size of the images read from the input file
Dims == {20, MaxDim}

Pixels(img) == (0 .. img.width - 1) \X (0 .. img.height - 1)

\* The pixel data of the input file: one fixed pattern that holds opaque black,
\* opaque white, a half transparent and a fully transparent pixel.
Palette == << <<0, 0, 0, 255>>, <<255, 255, 255, 255>>,
              <<200, 50, 10, 128>>, <<10, 20, 30, 0>> >>

FilePixel(x, y) == Palette[((x + 2 * y) % 4) + 1]

\* image.convert('RGBA'): an image without alpha channel gets alpha 255
ConvertRGBA(mode, px) ==
    IF mode = "RGBA" THEN px ELSE <<px[1], px[2], px[3], 255>>

\* the pixel of the RGBA image that main hands to draw_grid
BasePixel(img, x, y) == ConvertRGBA(img.file_mode, FilePixel(x, y))

\* an overlay that starts opaque black
NewOverlayPixel_Opaque == <<0, 0, 0, 255>>

\* Image.new('RGBA', (width, height), (0, 0, 0, 0)): the value of every pixel
NewOverlayPixel == <<0, 0, 0, 0>>

----------------------------------------------------------------------------
(* Fonts and text measurement *)

\* the system fonts in another order
FontCandidates_Reordered == <<"Arial.ttf",
                    "/usr/share/fonts/truetype/dejavu/DejaVuSans.ttf",
                    "/System/Library/Fonts/Helvetica.ttc",
                    "/Windows/Fonts/arial.ttf">>

\* line 101 and the list system_fonts of lines 104-108
FontCandidates == <<"Arial.ttf",
                    "/System/Library/Fonts/Helvetica.ttc",
                    "/usr/share/fonts/truetype/dejavu/DejaVuSans.ttf",
                    "/Windows/Fonts/arial.ttf">>

DefaultFont == "load_default"

FontWarning == "WARNING Could not load a TrueType font, using default font"

font_size(spacing) == Max(12, Min(24, FloorDiv(spacing, 5)))

\* What the font measures: advance of a character, distance of the glyphs' top
\* from the anchor, height of the glyphs.  A TrueType font scales with its
\* size, the built-in font is a fixed bitmap font.
Metrics(f) ==
    IF f.name = DefaultFont
    THEN [cw |-> 6, top |-> 0, h |-> 11]
    ELSE [cw |-> f.size \div 2, top |-> f.size \div 4, h |-> (3 * f.size) \div 4]

\* draw.textbbox((x, y), text, font=font): <<left, top, right, bottom>>
textbbox(x, y, text, f) ==
    LET m == Metrics(f)
    IN  <<x, y + m.top, x + m.cw * Len(text), y + m.top + m.h>>

----------------------------------------------------------------------------
(* Draw calls on the overlay *)

\* the rows (columns) a line at offset `at` of width `thickness` covers
StrokeLo(at, thickness) == at - ((Max(thickness, 1) - 1) \div 2)
StrokeHi(at, thickness) == at + (Max(thickness, 1) \div 2)

\* the opacity is not applied
grid_color_Opaque(color, opacity) == <<color[1], color[2], color[3], 255>>

\* grid_color = color + (opacity,)
grid_color(color, opacity) == <<color[1], color[2], color[3], opacity>>

\* an opaque background
LabelBackground_Opaque == <<255, 255, 255, 255>>

\* fill of a label's background rectangle
LabelBackground == <<255, 255, 255, 200>>

\* fill of a label's text
LabelInk == <<0, 0, 0, 255>>

\* draw.line([(0, y), (width, y)], fill=fill, width=thickness)
HLine(y, width, fill, thickness) ==
    [kind |-> "hline", at |-> y, text |-> <<>>, fill |-> fill,
     x0 |-> 0, y0 |-> StrokeLo(y, thickness),
     x1 |-> width, y1 |-> StrokeHi(y, thickness)]

\* draw.line([(x, 0), (x, height)], fill=fill, width=thickness)
VLine(x, height, fill, thickness) ==
    [kind |-> "vline", at |-> x, text |-> <<>>, fill |-> fill,
     x0 |-> StrokeLo(x, thickness), y0 |-> 0,
     x1 |-> StrokeHi(x, thickness), y1 |-> height]

\* bg_box = [bbox[0] - 2, bbox[1] - 2, bbox[2] + 2, bbox[3] + 2];
\* draw.rectangle(bg_box, fill=fill)
Rectangle(bbox, text, fill) ==
    [kind |-> "rect", at |-> 0, text |-> text, fill |-> fill,
     x0 |-> bbox[1] - 2, y0 |-> bbox[2] - 2,
     x1 |-> bbox[3] + 2, y1 |-> bbox[4] + 2]

\* draw.text((x, y), text, fill=fill, font=font): paints glyph pixels inside
\* the box that textbbox measures for the same arguments
Text(bbox, text, fill) ==
    [kind |-> "text", at |-> 0, text |-> text, fill |-> fill,
     x0 |-> bbox[1], y0 |-> bbox[2], x1 |-> bbox[3], y1 |-> bbox[4]]

InBox(op, x, y) == op.x0 <= x /\ x <= op.x1 /\ op.y0 <= y /\ y <= op.y1

\* the pixels of a text's box that its glyphs cover
Glyph(op, x, y) == ((x - op.x0) + (y - op.y0)) % 2 = 0

\* the draw call writes pixel (x, y)
Paints(op, x, y) == InBox(op, x, y) /\ (op.kind = "text" => Glyph(op, x, y))

\* index of the last of the first k draw calls that writes pixel (x, y), or 0
RECURSIVE TopOp(_, _, _, _)
TopOp(ops, k, x, y) ==
    IF k = 0 THEN 0
    ELSE IF Paints(ops[k], x, y) THEN k
    ELSE TopOp(ops, k - 1, x, y)

\* the overlay's pixel (x, y) after the draw calls ops
OverlayPixel(ops, x, y) ==
    LET k == TopOp(ops, Len(ops), x, y)
    IN  IF k = 0 THEN NewOverlayPixel ELSE ops[k].fill

\* a line at the far edge is not skipped
SkipLine_EdgeDrawn(offset, dim) == offset > dim

\* if y >= height: continue (if x >= width: continue)
SkipLine(offset, dim) == offset >= dim

\* body of the row loop for index n (lines 133-156): the draw calls it makes
RowBody(n, img, a, f) ==
    LET y == n * a.spacing
        row_label == str(n + 1)
        label_y == y + a.thickness + 2
        label_bbox == textbbox(10, label_y, row_label, f)
    IN  IF SkipLine(y, img.height) THEN <<>>
        ELSE << HLine(y, img.width, grid_color(a.color, a.opacity), a.thickness),
                Rectangle(label_bbox, row_label, LabelBackground),
                Text(label_bbox, row_label, LabelInk) >>

\* body of the column loop for index n (lines 160-183)
ColBody(n, img, a, f) ==
    LET x == n * a.spacing
        label == get_column_label(n)
        label_x == x + a.thickness + 2
        label_bbox == textbbox(label_x, 10, label, f)
    IN  IF SkipLine(x, img.width) THEN <<>>
        ELSE << VLine(x, img.height, grid_color(a.color, a.opacity), a.thickness),
                Rectangle(label_bbox, label, LabelBackground),
                Text(label_bbox, label, LabelInk) >>

----------------------------------------------------------------------------
(* Image.alpha_composite(dst, src), per pixel, in the integer arithmetic of  *)
(* the imaging library.  With 8 bit channels no intermediate value exceeds  *)
(* 255 * 255 * 255 * 128 < 2^31, so the unsigned 32 bit arithmetic never    *)
(* wraps.                                                                   *)

ShiftForDiv255(a) == ((a \div 256) + a) \div 256

alpha_composite(dst, src) ==
    IF src[4] = 0 THEN dst
    ELSE LET blend == dst[4] * (255 - src[4])
             outa255 == src[4] * 255 + blend
             coef1 == (src[4] * 255 * 255 * 128) \div outa255
             coef2 == 255 * 128 - coef1
             chan(c) == ShiftForDiv255(src[c] * coef1 + dst[c] * coef2
                                       + 128 * 128) \div 128
         IN  <<chan(1), chan(2), chan(3), ShiftForDiv255(outa255 + 128)>>

\* pixel (x, y) of the image draw_grid returns
ResultPixel(img, ops, x, y) ==
    alpha_composite(BasePixel(img, x, y), OverlayPixel(ops, x, y))

----------------------------------------------------------------------------
(* The command line *)

InputPath == "photo.png"

Spacings == {-MaxDim, -1, 0, 10, MaxDim \div 2, 100}
Colors == {<<0, 0, 255>>, <<255, 0, 0>>}
Opacities == {-1, 0, 255, 256}
Thicknesses == {1, 2, 3}
Outputs == {None, "out.png"}

\* parse_args(): the namespace of one command line
parse_args ==
    [input_image : {InputPath}, spacing : Spacings, color : Colors,
     opacity : Opacities, thickness : Thicknesses, output : Outputs]

NoImage == [file_mode |-> None, mode |-> None, width |-> 0, height |-> 0,
            intact |-> FALSE]
NoFont == [name |-> None, size |-> 0]

\* no upper limit
ValidOpacity_NoUpper(o) == 0 <= o

\* 0 <= args.opacity <= 255
ValidOpacity(o) == 0 <= o /\ o <= 255

OpacityWarning == "WARNING Invalid opacity value. Using default: 128"

\* os.path.splitext(os.path.basename(path))[0] + "_grid.png" for the input path
DefaultOutputName(path) == IF path = "photo.png" THEN "photo_grid.png" ELSE None

----------------------------------------------------------------------------
(* main *)

Init ==
    /\ pc = "start"
    /\ argv \in parse_args
    /\ args = argv
    /\ image = NoImage
    /\ font_tried = <<>>
    /\ font = NoFont
    /\ num_lines = <<0, 0>>
    /\ i = 0
    /\ grid_overlay = <<>>
    /\ log = <<>>
    /\ error = None
    /\ saved = None
    /\ ret = <<>>
    /\ index = 0
    /\ col_label = <<>>

\* An exception reaches the handlers of main (lines 244-257): it is logged as
\* an error and main returns 1.
Raise(exc) ==
    /\ error' = exc
    /\ log' = Append(log, "ERROR " \o exc)
    /\ ret' = <<1>>
    /\ pc' = "done"

\* lines 200-202
CheckInput ==
    /\ pc = "start"
    /\ \E exists \in BOOLEAN :
         IF exists
         THEN /\ pc' = "open"
              /\ UNCHANGED <<error, log, ret>>
         ELSE Raise("FileNotFoundError")
    /\ UNCHANGED <<argv, args, image, font_tried, font, num_lines, i,
                   grid_overlay, saved, index, col_label>>

\* lines 204-210.  Image.open identifies the file from its header and raises
\* when it cannot; the pixel data is decoded only when the image is first
\* loaded, and a file whose data is damaged fails there.
OpenImage ==
    /\ pc = "open"
    /\ \/ /\ Raise("ValueError")
          /\ UNCHANGED image
       \/ /\ \E m \in {"RGB", "RGBA"}, w \in Dims, h \in Dims, ok \in BOOLEAN :
               image' = [file_mode |-> m, mode |-> m, width |-> w, height |-> h,
                         intact |-> ok]
          /\ pc' = "validate"
          /\ UNCHANGED <<error, log, ret>>
    /\ UNCHANGED <<argv, args, font_tried, font, num_lines, i, grid_overlay,
                   saved, index, col_label>>

\* lines 212-215
ValidateOpacity ==
    /\ pc = "validate"
    /\ IF ~ValidOpacity(args.opacity)
       THEN /\ log' = Append(log, OpacityWarning)
            /\ args' = [args EXCEPT !.opacity = 128]
       ELSE UNCHANGED <<log, args>>
    /\ pc' = "outpath"
    /\ UNCHANGED <<argv, image, font_tried, font, num_lines, i, grid_overlay,
                   error, saved, ret, index, col_label>>

\* lines 217-221
DefaultOutput ==
    /\ pc = "outpath"
    /\ IF args.output = None
       THEN args' = [args EXCEPT !.output = DefaultOutputName(args.input_image)]
       ELSE UNCHANGED args
    /\ pc' = "ensure_rgba"
    /\ UNCHANGED <<argv, image, font_tried, font, num_lines, i, grid_overlay,
                   log, error, saved, ret, index, col_label>>

\* lines 223-226: convert loads the pixel data
EnsureRGBA ==
    /\ pc = "ensure_rgba"
    /\ IF image.mode # "RGBA"
       THEN IF image.intact
            THEN /\ image' = [image EXCEPT !.mode = "RGBA"]
                 /\ pc' = "draw_grid"
                 /\ UNCHANGED <<error, log, ret>>
            ELSE /\ Raise("OSError")
                 /\ UNCHANGED image
       ELSE /\ pc' = "draw_grid"
            /\ UNCHANGED <<image, error, log, ret>>
    /\ UNCHANGED <<argv, args, font_tried, font, num_lines, i, grid_overlay,
                   saved, index, col_label>>

----------------------------------------------------------------------------
(* draw_grid *)

\* lines 91-102: the overlay is created and Arial.ttf is tried
DrawGridEnter ==
    /\ pc = "draw_grid"
    /\ grid_overlay' = <<>>
    /\ \E ok \in BOOLEAN :
         /\ font_tried' = Append(font_tried, [name |-> FontCandidates[1], ok |-> ok])
         /\ IF ok
            THEN /\ font' = [name |-> FontCandidates[1], size |-> font_size(args.spacing)]
                 /\ pc' = "counts"
            ELSE /\ font' = font
                 /\ pc' = "system_fonts"
    /\ UNCHANGED <<argv, args, image, num_lines, i, log, error, saved, ret,
                   index, col_label>>

\* lines 104-119: one round of the loop over system_fonts, with its else branch
TrySystemFont ==
    /\ pc = "system_fonts"
    /\ LET k == Len(font_tried) + 1
       IN  \E ok \in BOOLEAN :
             /\ font_tried' = Append(font_tried, [name |-> FontCandidates[k], ok |-> ok])
             /\ IF ok
                THEN /\ font' = [name |-> FontCandidates[k], size |-> font_size(args.spacing)]
                     /\ pc' = "counts"
                     /\ log' = log
                ELSE IF k = Len(FontCandidates)
                THEN /\ font' = [name |-> DefaultFont, size |-> 0]
                     /\ log' = Append(log, FontWarning)
                     /\ pc' = "counts"
                ELSE /\ font' = font
                     /\ log' = log
                     /\ pc' = "system_fonts"
    /\ UNCHANGED <<argv, args, image, num_lines, i, grid_overlay, error, saved,
                   ret, index, col_label>>

\* lines 121-129: height // spacing raises ZeroDivisionError for spacing 0
ComputeCounts ==
    /\ pc = "counts"
    /\ IF args.spacing = 0
       THEN /\ Raise("ZeroDivisionError")
            /\ UNCHANGED <<num_lines, i>>
       ELSE /\ num_lines' = <<FloorDiv(image.height, args.spacing) + 1,
                              FloorDiv(image.width, args.spacing) + 1>>
            /\ i' = 0
            /\ pc' = "rows"
            /\ UNCHANGED <<error, log, ret>>
    /\ UNCHANGED <<argv, args, image, font_tried, font, grid_overlay, saved,
                   index, col_label>>

\* lines 132-156: one round of the row loop
RowStep ==
    /\ pc = "rows"
    /\ i < num_lines[1]
    /\ grid_overlay' = grid_overlay \o RowBody(i, image, args, font)
    /\ i' = i + 1
    /\ UNCHANGED <<pc, argv, args, image, font_tried, font, num_lines, log,
                   error, saved, ret, index, col_label>>

\* range(num_horizontal) is exhausted
RowsDone ==
    /\ pc = "rows"
    /\ i >= num_lines[1]
    /\ i' = 0
    /\ pc' = "cols"
    /\ UNCHANGED <<argv, args, image, font_tried, font, num_lines, grid_overlay,
                   log, error, saved, ret, index, col_label>>

\* lines 159-183: one round of the column loop
ColStep ==
    /\ pc = "cols"
    /\ i < num_lines[2]
    /\ grid_overlay' = grid_overlay \o ColBody(i, image, args, font)
    /\ i' = i + 1
    /\ UNCHANGED <<pc, argv, args, image, font_tried, font, num_lines, log,
                   error, saved, ret, index, col_label>>

\* range(num_vertical) is exhausted
ColsDone ==
    /\ pc = "cols"
    /\ i >= num_lines[2]
    /\ pc' = "composite"
    /\ UNCHANGED <<argv, args, image, font_tried, font, num_lines, i,
                   grid_overlay, log, error, saved, ret, index, col_label>>

\* lines 185-187: image.convert("RGBA") loads the pixel data; the composited
\* image (ResultPixel) is returned to main
Composite ==
    /\ pc = "composite"
    /\ IF image.intact
       THEN /\ pc' = "save"
            /\ UNCHANGED <<error, log, ret>>
       ELSE Raise("OSError")
    /\ UNCHANGED <<argv, args, image, font_tried, font, num_lines, i,
                   grid_overlay, saved, index, col_label>>

\* lines 237-242: grid_image.save writes the file or raises
Save ==
    /\ pc = "save"
    /\ \/ /\ saved' = args.output
          /\ ret' = <<0>>
          /\ pc' = "done"
          /\ UNCHANGED <<error, log>>
       \/ /\ Raise("OSError")
          /\ UNCHANGED saved
    /\ UNCHANGED <<argv, args, image, font_tried, font, num_lines, i,
                   grid_overlay, index, col_label>>

Next ==
    \/ CheckInput
    \/ OpenImage
    \/ ValidateOpacity
    \/ DefaultOutput
    \/ EnsureRGBA
    \/ DrawGridEnter
    \/ TrySystemFont
    \/ ComputeCounts
    \/ RowStep
    \/ RowsDone
    \/ ColStep
    \/ ColsDone
    \/ Composite
    \/ Save

Spec == Init /\ [][Next]_vars

----------------------------------------------------------------------------
(* get_column_label called on its own *)

LabelInit ==
    /\ pc = "label"
    /\ index \in 0 .. MaxIndex
    /\ col_label = <<>>
    /\ argv = [input_image |-> InputPath, spacing |-> 100, color |-> <<0, 0, 255>>,
               opacity |-> 128, thickness |-> 2, output |-> None]
    /\ args = argv
    /\ image = NoImage
    /\ font_tried = <<>>
    /\ font = NoFont
    /\ num_lines = <<0, 0>>
    /\ i = 0
    /\ grid_overlay = <<>>
    /\ log = <<>>
    /\ error = None
    /\ saved = None
    /\ ret = <<>>

LabelCall ==
    /\ pc = "label"
    /\ col_label' = get_column_label(index)
    /\ pc' = "label_done"
    /\ UNCHANGED <<argv, args, image, font_tried, font, num_lines, i,
                   grid_overlay, log, error, saved, ret, index>>

LabelNext == LabelCall

LabelSpec == LabelInit /\ [][LabelNext]_vars

----------------------------------------------------------------------------
(* Properties of get_column_label, under LabelSpec *)

\* the 26 letters; the letter at alphabet position k is Alphabet[k + 1]
Alphabet == <<"A","B","C","D","E","F","G","H","I","J","K","L","M",
              "N","O","P","Q","R","S","T","U","V","W","X","Y","Z">>

IsLetter(c) == \E k \in 1 .. 26 : Alphabet[k] = c

\* the spreadsheet name of a 0-based column index (bijective base 26):
\* A..Z, AA..ZZ, AAA, ...
RECURSIVE SpreadsheetName(_)
SpreadsheetName(n) ==
    IF n < 26 THEN <<Alphabet[n + 1]>>
    ELSE SpreadsheetName((n \div 26) - 1) \o <<Alphabet[(n % 26) + 1]>>

\* C1: for every index >= 0 the label is the letter at position index when
\* index < 26, and otherwise the letter at position (index div 26) - 1
\* followed by the letter at position index mod 26, both letters of A..Z.
C1_LabelIsFormulaOfLetters ==
    pc = "label_done" =>
        /\ \A k \in 1 .. Len(col_label) : IsLetter(col_label[k])
        /\ IF index < 26
           THEN col_label = <<Alphabet[index + 1]>>
           ELSE /\ (index \div 26) - 1 \in 0 .. 25
                /\ col_label = <<Alphabet[index \div 26], Alphabet[(index % 26) + 1]>>

\* the values of the label that the specification lists
C1_ListedLabels ==
    pc = "label_done" =>
        /\ (index = 0 => col_label = <<"A">>)
        /\ (index = 25 => col_label = <<"Z">>)
        /\ (index = 26 => col_label = <<"A", "A">>)
        /\ (index = 51 => col_label = <<"A", "Z">>)
        /\ (index = 52 => col_label = <<"B", "A">>)
        /\ (index = 77 => col_label = <<"B", "Z">>)
        /\ (index = 78 => col_label = <<"C", "A">>)

\* C3: the label of every index >= 0 is the spreadsheet-style name of the
\* index (A..Z, AA..ZZ, AAA, ...), the 0-based bijective base-26 encoding.
C3_LabelIsSpreadsheetName ==
    pc = "label_done" => col_label = SpreadsheetName(index)

\* up to index 701 ("ZZ") the label is the spreadsheet name
C3_TwoLetterRange ==
    pc = "label_done" /\ index < 702 => col_label = SpreadsheetName(index)

----------------------------------------------------------------------------
(* Properties of draw_grid and main, under Spec *)

\* draw_grid has been called: its first statements have run
DrawGridCalled == font_tried # <<>>

\* both loops of draw_grid have finished
LoopsFinished == pc \in {"composite", "save"} \/ (pc = "done" /\ ret = <<0>>)

\* draw_grid has returned its image to main
Returned == pc = "save"

IsLine(op) == op.kind \in {"hline", "vline"}

\* the offsets of the lines of one axis, in the order they were drawn
RECURSIVE LineOffsets(_, _)
LineOffsets(ops, kind) ==
    IF ops = <<>> THEN <<>>
    ELSE (IF Head(ops).kind = kind THEN <<Head(ops).at>> ELSE <<>>)
         \o LineOffsets(Tail(ops), kind)

NoDuplicates(seq) ==
    \A j, k \in 1 .. Len(seq) : seq[j] = seq[k] => j = k

Range(seq) == {seq[k] : k \in 1 .. Len(seq)}

\* the offsets the claim gives for a dimension and a spacing
ClaimedOffsets(dim, spacing) ==
    {k * spacing : k \in {n \in 0 .. (dim \div spacing) : n * spacing < dim}}

\* every multiple of the spacing strictly less than the dimension
MultiplesBelow(dim, spacing) == {o \in 0 .. dim - 1 : o % spacing = 0}

AxisAsClaimed(offsets, dim, spacing) ==
    /\ NoDuplicates(offsets)
    /\ Range(offsets) = ClaimedOffsets(dim, spacing)
    /\ Range(offsets) = MultiplesBelow(dim, spacing)
    /\ 0 \in Range(offsets)
    /\ \A o \in Range(offsets) : o < dim

\* C2: for width, height and spacing > 0 a horizontal (vertical) line is
\* drawn exactly at the offsets i * spacing with 0 <= i <= floor(dim / spacing)
\* and i * spacing < dim, each once: every multiple of the spacing below the
\* dimension, offset 0 included, none at or beyond the dimension.
C2_LinesAtMultiplesBelowDimension ==
    LoopsFinished /\ args.spacing > 0 =>
        /\ AxisAsClaimed(LineOffsets(grid_overlay, "hline"), image.height, args.spacing)
        /\ AxisAsClaimed(LineOffsets(grid_overlay, "vline"), image.width, args.spacing)

\* a run where the loop reached an offset equal to the dimension and skipped
\* it, after drawing more than one line
C2_Witness ==
    /\ pc = "save"
    /\ args.spacing > 0
    /\ image.height % args.spacing = 0
    /\ image.width % args.spacing = 0
    /\ Len(LineOffsets(grid_overlay, "hline")) = 2
    /\ Len(LineOffsets(grid_overlay, "vline")) = 2

\* pixel (x, y) lies in no line stroke and in no label background box
OutsideDrawn(ops, x, y) ==
    \A k \in 1 .. Len(ops) :
        ops[k].kind \in {"hline", "vline", "rect"} => ~InBox(ops[k], x, y)

\* C4: every pixel of the returned image outside every line stroke and every
\* label background box has the input's colour and alpha: the overlay is
\* (0,0,0,0) there and compositing a transparent pixel changes nothing.
C4_UndrawnPixelsUnchanged ==
    Returned =>
        \A p \in Pixels(image) :
            OutsideDrawn(grid_overlay, p[1], p[2]) =>
                /\ OverlayPixel(grid_overlay, p[1], p[2]) = <<0, 0, 0, 0>>
                /\ ResultPixel(image, grid_overlay, p[1], p[2])
                       = BasePixel(image, p[1], p[2])

\* a returned image with lines and labels drawn, and an undrawn pixel whose
\* input is half transparent
C4_Witness ==
    /\ Returned
    /\ Len(grid_overlay) >= 6
    /\ \E p \in Pixels(image) :
           /\ OutsideDrawn(grid_overlay, p[1], p[2])
           /\ BasePixel(image, p[1], p[2])[4] = 128

\* pixel (x, y) lies in the stroke of a grid line
InStroke(ops, x, y) ==
    \E k \in 1 .. Len(ops) : IsLine(ops[k]) /\ InBox(ops[k], x, y)

\* the last draw call that wrote pixel (x, y) drew a grid line
StrokeOnTop(ops, x, y) ==
    LET k == TopOp(ops, Len(ops), x, y)
    IN  k > 0 /\ IsLine(ops[k])

\* what the claim says of a stroke pixel, for the opacity handed to draw_grid
LineColourAsClaimed(x, y) ==
    /\ args.opacity = 0 =>
           ResultPixel(image, grid_overlay, x, y) = BasePixel(image, x, y)
    /\ args.opacity = 255 =>
           ResultPixel(image, grid_overlay, x, y)
               = <<args.color[1], args.color[2], args.color[3], 255>>

\* C5 as stated: at every pixel covered by a line stroke the returned image
\* has the input's colour when opacity = 0 and the line colour with alpha 255
\* when opacity = 255, for every opaque input, spacing > 0 and thickness > 0.
C5_EveryStrokePixel ==
    Returned /\ image.file_mode = "RGB" /\ args.spacing > 0 /\ args.thickness > 0 =>
        \A p \in Pixels(image) :
            InStroke(grid_overlay, p[1], p[2]) => LineColourAsClaimed(p[1], p[2])

\* C5 amended: the same at every stroke pixel that no label background box
\* or label text drawn after the line has painted over.
C5_StrokePixelsNotPaintedOver ==
    Returned /\ image.file_mode = "RGB" /\ args.spacing > 0 /\ args.thickness > 0 =>
        \A p \in Pixels(image) :
            StrokeOnTop(grid_overlay, p[1], p[2]) => LineColourAsClaimed(p[1], p[2])

\* an opaque input with fully opaque lines, one stroke pixel showing the line
\* and one painted over by a label drawn later
C5_Witness ==
    /\ Returned
    /\ image.file_mode = "RGB"
    /\ args.spacing > 0
    /\ args.opacity = 255
    /\ \E p \in Pixels(image) : StrokeOnTop(grid_overlay, p[1], p[2])
    /\ \E p \in Pixels(image) :
           /\ InStroke(grid_overlay, p[1], p[2])
           /\ ~StrokeOnTop(grid_overlay, p[1], p[2])

\* the last draw call that wrote pixel (x, y) drew a label background
BackgroundOnTop(ops, x, y) ==
    LET k == TopOp(ops, Len(ops), x, y)
    IN  k > 0 /\ ops[k].kind = "rect"

\* C8 as stated: every label background rectangle is drawn with alpha 255.
C8_BackgroundOpaque ==
    \A k \in 1 .. Len(grid_overlay) :
        grid_overlay[k].kind = "rect" => grid_overlay[k].fill[4] = 255

\* C8 amended: every label background rectangle is drawn white with alpha 200;
\* a pixel of it that no later draw call paints over is the input pixel
\* blended with white, so it changes with the input: black gives
\* (200,200,200), white gives (255,255,255).
C8_BackgroundBlended ==
    /\ \A k \in 1 .. Len(grid_overlay) :
           grid_overlay[k].kind = "rect" => grid_overlay[k].fill = <<255, 255, 255, 200>>
    /\ Returned =>
           \A p \in Pixels(image) :
               BackgroundOnTop(grid_overlay, p[1], p[2]) =>
                   LET base == BasePixel(image, p[1], p[2])
                       out == ResultPixel(image, grid_overlay, p[1], p[2])
                   IN  /\ out = alpha_composite(base, <<255, 255, 255, 200>>)
                       /\ (base = <<0, 0, 0, 255>> => out = <<200, 200, 200, 255>>)
                       /\ (base = <<255, 255, 255, 255>> => out = <<255, 255, 255, 255>>)

\* a returned image with a background pixel over black and one over white
C8_Witness ==
    /\ Returned
    /\ \E p \in Pixels(image) :
           /\ BackgroundOnTop(grid_overlay, p[1], p[2])
           /\ BasePixel(image, p[1], p[2]) = <<0, 0, 0, 255>>
    /\ \E p \in Pixels(image) :
           /\ BackgroundOnTop(grid_overlay, p[1], p[2])
           /\ BasePixel(image, p[1], p[2]) = <<255, 255, 255, 255>>

\* the input path does not exist, or the file cannot be decoded as an image:
\* its header is not recognised, or its pixel data is damaged
InputUnusable ==
    \/ error \in {"FileNotFoundError", "ValueError"}
    \/ (image # NoImage /\ ~image.intact)

\* C6: main returns 0 exactly when the output image has been saved and 1 on
\* every handled error; when the input is missing or cannot be decoded, main
\* returns 1 without ever calling draw_grid or saving a file.
C6_ExitCodeAndAbortBeforeRendering ==
    /\ pc = "done" => /\ ret \in {<<0>>, <<1>>}
                      /\ (ret = <<0>> <=> saved # None)
                      /\ (error # None => ret = <<1>>)
    /\ InputUnusable => /\ ~DrawGridCalled
                        /\ saved = None
                        /\ (pc = "done" => ret = <<1>>)

\* the part of C6 about the exit code and about saving
C6_ExitCodeOnly ==
    /\ pc = "done" => /\ ret \in {<<0>>, <<1>>}
                      /\ (ret = <<0>> <=> saved # None)
                      /\ (error # None => ret = <<1>>)
    /\ InputUnusable => /\ saved = None
                        /\ (pc = "done" => ret = <<1>>)

\* C7: with a readable input the opacity handed to draw_grid lies in 0..255:
\* it is the value given when that is in 0..255 and 128 otherwise; a value out
\* of range never aborts the run, main still renders, saves and returns 0.
C7_OpacityPassedToDrawGrid ==
    /\ DrawGridCalled =>
           /\ args.opacity \in 0 .. 255
           /\ args.opacity = IF argv.opacity >= 0 /\ argv.opacity <= 255
                             THEN argv.opacity ELSE 128
    /\ pc \in {"outpath", "ensure_rgba", "draw_grid"} => ret = <<>> /\ error = None
    /\ pc = "done" /\ image.intact /\ args.spacing # 0 =>
           \/ ret = <<0>> /\ saved = args.output /\ error = None
           \/ error = "OSError" /\ saved = None

\* a finished run given an opacity out of range: rendered with 128, saved
C7_Witness ==
    /\ pc = "done"
    /\ argv.opacity = 256
    /\ args.opacity = 128
    /\ Len(grid_overlay) > 0
    /\ ret = <<0>>
    /\ saved # None

FontResolved == pc \in {"counts", "rows", "cols", "composite", "save"}
                    \/ (pc = "done" /\ DrawGridCalled)

\* C9: font resolution always ends with a font and never raises: the
\* candidates are tried in the order Arial.ttf, Helvetica.ttc, DejaVuSans.ttf,
\* arial.ttf, the first that loads is used and no later one is tried; the
\* built-in font is used, and the warning logged, exactly when all four fail.
C9_FontFallbackChain ==
    LET order == <<"Arial.ttf",
                   "/System/Library/Fonts/Helvetica.ttc",
                   "/usr/share/fonts/truetype/dejavu/DejaVuSans.ttf",
                   "/Windows/Fonts/arial.ttf">>
        n == Len(font_tried)
        all_failed == n = 4 /\ \A k \in 1 .. 4 : ~font_tried[k].ok
        warned == \E k \in 1 .. Len(log) : log[k] = FontWarning
    IN  /\ n <= 4
        /\ \A k \in 1 .. n : font_tried[k].name = order[k]
        /\ \A k \in 1 .. n - 1 : ~font_tried[k].ok
        /\ pc = "system_fonts" =>
               /\ n \in 1 .. 3 /\ ~font_tried[n].ok
               /\ font = NoFont /\ ret = <<>> /\ error = None /\ ~warned
        /\ FontResolved =>
               /\ font # NoFont
               /\ (font.name = DefaultFont <=> all_failed)
               /\ (font.name = DefaultFont <=> warned)
               /\ (font.name # DefaultFont =>
                       font_tried[n].ok /\ font_tried[n].name = font.name)
               /\ (pc # "done" => ret = <<>> /\ error = None)

\* a run in which all four candidates failed: built-in font, warning logged
C9_Witness ==
    /\ pc = "counts"
    /\ Len(font_tried) = 4
    /\ font.name = DefaultFont
    /\ log # <<>>

\* the warnings logged, each with its own cause present
OnlyOwnWarnings ==
    \A k \in 1 .. Len(log) :
        \/ log[k] = OpacityWarning /\ ~(argv.opacity >= 0 /\ argv.opacity <= 255)
        \/ log[k] = FontWarning /\ font.name = DefaultFont

\* C10: spacing is never validated: for a negative spacing and an image with
\* width, height > 0 both loop counts are <= 0, draw_grid draws no line and no
\* label, the returned image equals the RGBA input pixel for pixel, and main
\* saves it and returns 0 with no error and no warning about it.
C10_NegativeSpacingDrawsNothing ==
    args.spacing < 0 =>
        /\ grid_overlay = <<>>
        /\ error # "ZeroDivisionError"
        /\ pc \in {"rows", "cols", "composite", "save"} =>
               num_lines[1] <= 0 /\ num_lines[2] <= 0
        /\ Returned =>
               \A p \in Pixels(image) :
                   ResultPixel(image, grid_overlay, p[1], p[2])
                       = BasePixel(image, p[1], p[2])
        /\ pc = "done" /\ image.intact =>
               \/ /\ ret = <<0>> /\ saved = args.output /\ error = None
                  /\ OnlyOwnWarnings
                  /\ (argv.opacity \in 0 .. 255 /\ font.name # DefaultFont => log = <<>>)
               \/ error = "OSError" /\ saved = None

\* a finished run with negative spacing: saved, returned 0, nothing logged
C10_Witness ==
    /\ pc = "done"
    /\ args.spacing < 0
    /\ image.height > 0 /\ image.width > 0
    /\ -args.spacing < image.height
    /\ ret = <<0>>
    /\ saved # None
    /\ log = <<>>

====
